---- MODULE Spec2Model ----
(***************************************************************************)
(* Model of scaffolds/vfx/qml/src/main.cpp: the start-up sequence of the   *)
(* QML front end.  main() publishes the USD version into the root QML      *)
(* context, connects a queued handler to QQmlApplicationEngine's           *)
(* objectCreated signal, loads qrc:/main.qml and runs the event loop.  The *)
(* handler calls QCoreApplication::exit(-1) when the requested URL failed  *)
(* to instantiate.                                                         *)
(*                                                                         *)
(* The Qt pieces main() relies on are modelled by what they do: a queued   *)
(* connection posts the call to the receiver's event queue, exec() runs    *)
(* posted events in batches until exit() was called, exit() outside a      *)
(* running loop has no effect, and the engine emits objectCreated once per *)
(* load() call.                                                            *)
(***************************************************************************)
EXTENDS Integers, Sequences, FiniteSets

VARIABLES pc, version, cout, context, ctxWrites, connected, loads, pending,
          rootObject, queue, batch, loop, result, emitted, calls, quitPosted

vars == <<pc, version, cout, context, ctxWrites, connected, loads, pending,
          rootObject, queue, batch, loop, result, emitted, calls, quitPosted>>

----------------------------------------------------------------------------
(* Bounds and input sets *)

\* Largest number of objectCreated notifications for other URLs
MaxOther == 2

\* Values pxr::UsdGetVersion() may return (PXR_VERSION of the linked build)
Versions == {7, 2311, 2405}

\* URLs other than the one main() requests
OtherUrls == {"qrc:/other.qml"}

----------------------------------------------------------------------------
(* Program constants *)

\* const QUrl url(QStringLiteral("qrc:/main.qml"))
url == "qrc:/main.qml"

\* the context property name
usdVersionKey == "usdVersion"

\* QCoreApplication::exit(-1)
ExitFailure == -1

\* QCoreApplication::quit() is exit(0)
ExitSuccess == 0

\* a QObject* that is null
NULL == "nullptr"

\* a QObject* that points to an instantiated object
OBJECT == "object"

Objs == {NULL, OBJECT}

\* the value main() returned: <<>> until it returns, then <<rc>>
NoResult == <<>>

----------------------------------------------------------------------------
(* std::to_string(int) *)

DigitChar(d) == <<"0", "1", "2", "3", "4", "5", "6", "7", "8", "9">>[d + 1]

RECURSIVE Digits(_)
Digits(n) == IF n < 10 THEN <<DigitChar(n)>>
             ELSE Digits(n \div 10) \o <<DigitChar(n % 10)>>

to_string(n) == IF n < 0 THEN <<"-">> \o Digits(0 - n) ELSE Digits(n)

----------------------------------------------------------------------------
(* The statements of main(), in program order *)

ProgramOrderLoadBeforePublish ==
    <<"app", "print", "engine", "load", "publish", "connect", "exec">>

ProgramOrderLoadBeforeConnect ==
    <<"app", "print", "engine", "publish", "load", "connect", "exec">>

ProgramOrderPublishTwice ==
    <<"app", "print", "engine", "publish", "connect", "load", "publish", "exec">>

ProgramOrderLoadTwice ==
    <<"app", "print", "engine", "publish", "connect", "load", "load", "exec">>

ProgramOrder ==
    <<"app", "print", "engine", "publish", "connect", "load", "exec">>

Done == Len(ProgramOrder) + 1

At(stmt) == pc <= Len(ProgramOrder) /\ ProgramOrder[pc] = stmt

\* the fifth argument of QObject::connect
ConnectionTypeDirect == "Direct"

ConnectionType == "Queued"

----------------------------------------------------------------------------
(* The objectCreated handler (the lambda).  The value is the sequence of   *)
(* QCoreApplication::exit calls it makes.                                   *)

HandlerNoUrlCheck(obj, objUrl) ==
    IF obj = NULL THEN <<ExitFailure>> ELSE <<>>

HandlerInverted(obj, objUrl) ==
    IF obj # NULL /\ url = objUrl THEN <<ExitFailure>> ELSE <<>>

HandlerExitsZero(obj, objUrl) ==
    IF obj = NULL /\ url = objUrl THEN <<ExitSuccess>> ELSE <<>>

HandlerIgnoresObj(obj, objUrl) ==
    IF url = objUrl THEN <<ExitFailure>> ELSE <<>>

Handler(obj, objUrl) ==
    IF obj = NULL /\ url = objUrl THEN <<ExitFailure>> ELSE <<>>

\* QCoreApplication::exit(rc): tells the running event loop to leave with rc;
\* without a running loop it does nothing.
Exit(l, rc) == IF l.running THEN [l EXCEPT !.exit = TRUE, !.rc = rc] ELSE l

RECURSIVE ExitAll(_, _)
ExitAll(l, rcs) == IF rcs = <<>> THEN l
                   ELSE ExitAll(Exit(l, Head(rcs)), Tail(rcs))

\* one run of the handler
InvokeHandler(obj, objUrl) ==
    /\ calls' = Append(calls, [obj |-> obj, url |-> objUrl,
                               inExec |-> loop.running,
                               exits |-> Handler(obj, objUrl)])
    /\ loop' = ExitAll(loop, Handler(obj, objUrl))

ObjectCreatedEvent(obj, objUrl) ==
    [kind |-> "objectCreated", obj |-> obj, url |-> objUrl]

QuitEvent == [kind |-> "quit", obj |-> NULL, url |-> ""]

\* emit engine.objectCreated(obj, objUrl); `at' records where it was emitted
EmitObjectCreated(obj, objUrl, at) ==
    /\ emitted' = Append(emitted, [obj |-> obj, url |-> objUrl, at |-> at,
                                   connected |-> connected])
    /\ IF ~connected
       THEN UNCHANGED <<queue, calls, loop>>
       ELSE IF ConnectionType = "Queued"
            THEN /\ queue' = Append(queue, ObjectCreatedEvent(obj, objUrl))
                 /\ UNCHANGED <<calls, loop>>
            ELSE /\ InvokeHandler(obj, objUrl)
                 /\ UNCHANGED queue

----------------------------------------------------------------------------
Init ==
    /\ pc = 1
    /\ version \in Versions
    /\ cout = <<>>
    /\ context = <<>>
    /\ ctxWrites = <<>>
    /\ connected = FALSE
    /\ loads = 0
    /\ pending = FALSE
    /\ rootObject = NULL
    /\ queue = <<>>
    /\ batch = 0
    /\ loop = [running |-> FALSE, exit |-> FALSE, rc |-> 0]
    /\ result = NoResult
    /\ emitted = <<>>
    /\ calls = <<>>
    /\ quitPosted = FALSE

\* QGuiApplication app(argc, argv);
ConstructApp ==
    /\ At("app")
    /\ pc' = pc + 1
    /\ UNCHANGED <<version, cout, context, ctxWrites, connected, loads,
                   pending, rootObject, queue, batch, loop, result, emitted,
                   calls, quitPosted>>

\* std::cout << "USD Version: " << pxr::UsdGetVersion() << std::endl;
PrintVersion ==
    /\ At("print")
    /\ cout' = Append(cout, [label |-> "USD Version: ",
                             value |-> to_string(version)])
    /\ pc' = pc + 1
    /\ UNCHANGED <<version, context, ctxWrites, connected, loads, pending,
                   rootObject, queue, batch, loop, result, emitted, calls,
                   quitPosted>>

\* QQmlApplicationEngine engine;
ConstructEngine ==
    /\ At("engine")
    /\ pc' = pc + 1
    /\ UNCHANGED <<version, cout, context, ctxWrites, connected, loads,
                   pending, rootObject, queue, batch, loop, result, emitted,
                   calls, quitPosted>>

\* QQmlContext::setContextProperty(name, value)
SetContextProperty(ctx, name, value) ==
    [k \in (DOMAIN ctx) \cup {name} |-> IF k = name THEN value ELSE ctx[k]]

\* engine.rootContext()->setContextProperty("usdVersion", ...to_string(...));
Publish ==
    /\ At("publish")
    /\ context' = SetContextProperty(context, usdVersionKey, to_string(version))
    /\ ctxWrites' = Append(ctxWrites, [key |-> usdVersionKey,
                                       value |-> to_string(version),
                                       loads |-> loads])
    /\ pc' = pc + 1
    /\ UNCHANGED <<version, cout, connected, loads, pending, rootObject,
                   queue, batch, loop, result, emitted, calls, quitPosted>>

\* QObject::connect(&engine, &QQmlApplicationEngine::objectCreated, &app, ...)
Connect ==
    /\ At("connect")
    /\ connected' = TRUE
    /\ pc' = pc + 1
    /\ UNCHANGED <<version, cout, context, ctxWrites, loads, pending,
                   rootObject, queue, batch, loop, result, emitted, calls,
                   quitPosted>>

\* engine.load(url), the component being ready (or in error) at once:
\* objectCreated is emitted inside the call
LoadSync ==
    /\ At("load")
    /\ \E obj \in Objs :
          /\ EmitObjectCreated(obj, url, "load")
          /\ rootObject' = IF obj # NULL THEN obj ELSE rootObject
    /\ loads' = loads + 1
    /\ pc' = pc + 1
    /\ UNCHANGED <<version, cout, context, ctxWrites, connected, pending,
                   batch, result, quitPosted>>

\* engine.load(url), the component still loading when the call returns
LoadAsync ==
    /\ At("load")
    /\ ~pending
    /\ pending' = TRUE
    /\ loads' = loads + 1
    /\ pc' = pc + 1
    /\ UNCHANGED <<version, cout, context, ctxWrites, connected, rootObject,
                   queue, batch, loop, result, emitted, calls, quitPosted>>

\* app.exec(): the event loop starts
StartExec ==
    /\ At("exec")
    /\ ~loop.running
    /\ loop' = [running |-> TRUE, exit |-> FALSE, rc |-> 0]
    /\ UNCHANGED <<pc, version, cout, context, ctxWrites, connected, loads,
                   pending, rootObject, queue, batch, result, emitted, calls,
                   quitPosted>>

\* the component finishes loading during the event loop
LoadFinished ==
    /\ loop.running
    /\ pending
    /\ pending' = FALSE
    /\ \E obj \in Objs :
          /\ EmitObjectCreated(obj, url, "loop")
          /\ rootObject' = IF obj # NULL THEN obj ELSE rootObject
    /\ UNCHANGED <<pc, version, cout, context, ctxWrites, connected, loads,
                   batch, result, quitPosted>>

OtherEmitted == Len(SelectSeq(emitted, LAMBDA e : e.url # url))

\* objectCreated is emitted for a URL main() did not request
EmitOther ==
    /\ loop.running
    /\ OtherEmitted < MaxOther
    /\ \E obj \in Objs, u \in OtherUrls : EmitObjectCreated(obj, u, "loop")
    /\ UNCHANGED <<pc, version, cout, context, ctxWrites, connected, loads,
                   pending, rootObject, batch, result, quitPosted>>

\* the loaded UI asks the application to quit (last window closed, Qt.quit())
PostQuit ==
    /\ loop.running
    /\ rootObject # NULL
    /\ ~quitPosted
    /\ quitPosted' = TRUE
    /\ queue' = Append(queue, QuitEvent)
    /\ UNCHANGED <<pc, version, cout, context, ctxWrites, connected, loads,
                   pending, rootObject, batch, loop, result, emitted, calls>>

\* one turn of the event loop begins: the events posted so far are its batch
ProcessEvents ==
    /\ loop.running
    /\ ~loop.exit
    /\ batch = 0
    /\ queue # <<>>
    /\ batch' = Len(queue)
    /\ UNCHANGED <<pc, version, cout, context, ctxWrites, connected, loads,
                   pending, rootObject, queue, loop, result, emitted, calls,
                   quitPosted>>

\* the event loop delivers the next posted event of the batch
DeliverEvent ==
    /\ loop.running
    /\ batch > 0
    /\ LET ev == Head(queue) IN
          IF ev.kind = "objectCreated"
          THEN InvokeHandler(ev.obj, ev.url)
          ELSE /\ loop' = Exit(loop, ExitSuccess)
               /\ calls' = calls
    /\ queue' = Tail(queue)
    /\ batch' = batch - 1
    /\ UNCHANGED <<pc, version, cout, context, ctxWrites, connected, loads,
                   pending, rootObject, result, emitted, quitPosted>>

\* return app.exec();
ExecReturn ==
    /\ At("exec")
    /\ loop.running
    /\ loop.exit
    /\ batch = 0
    /\ result' = <<loop.rc>>
    /\ loop' = [loop EXCEPT !.running = FALSE]
    /\ pc' = pc + 1
    /\ UNCHANGED <<version, cout, context, ctxWrites, connected, loads,
                   pending, rootObject, queue, batch, emitted, calls,
                   quitPosted>>

Next ==
    \/ ConstructApp
    \/ PrintVersion
    \/ ConstructEngine
    \/ Publish
    \/ Connect
    \/ LoadSync
    \/ LoadAsync
    \/ StartExec
    \/ LoadFinished
    \/ EmitOther
    \/ PostQuit
    \/ ProcessEvents
    \/ DeliverEvent
    \/ ExecReturn

Spec == Init /\ [][Next]_vars

\* main() runs to its exec() call and the event loop keeps turning; nothing
\* obliges the engine to finish a load or the UI to quit.
Fairness ==
    /\ WF_vars(ConstructApp \/ PrintVersion \/ ConstructEngine \/ Publish
               \/ Connect \/ LoadSync \/ LoadAsync \/ StartExec)
    /\ WF_vars(ProcessEvents)
    /\ WF_vars(DeliverEvent)
    /\ WF_vars(ExecReturn)

FairSpec == Spec /\ Fairness

----------------------------------------------------------------------------
(* Vocabulary of the properties *)

\* handler runs, notifications and posted events for the requested URL
MatchingCalls == SelectSeq(calls, LAMBDA c : c.url = url)

MatchingEmitted == SelectSeq(emitted, LAMBDA e : e.url = url)

MatchingQueued ==
    SelectSeq(queue, LAMBDA ev : ev.kind = "objectCreated" /\ ev.url = url)

\* handler runs for other URLs
OtherCalls == SelectSeq(calls, LAMBDA c : c.url # url)

\* the load of the requested URL failed / succeeded
LoadFailed == MatchingEmitted # <<>> /\ MatchingEmitted[1].obj = NULL

LoadResolved == MatchingEmitted # <<>> /\ MatchingEmitted[1].obj # NULL

\* a handler run carrying an absent object and the requested URL happened
FailureDelivered == \E i \in 1..Len(calls) :
                       calls[i].obj = NULL /\ calls[i].url = url

\* exit(-1) was accepted by the running loop, or main() returned -1
SentinelTaken ==
    \/ result = <<ExitFailure>>
    \/ loop.running /\ loop.exit /\ loop.rc = ExitFailure

\* the state of the UI loader: Idle until load() is called, Requested until
\* the handler has run for the requested URL, then Resolved or Failed by the
\* object that run carried
LoaderState ==
    IF loads = 0 THEN "Idle"
    ELSE IF MatchingCalls = <<>> THEN "Requested"
    ELSE IF MatchingCalls[Len(MatchingCalls)].obj = NULL THEN "Failed"
    ELSE "Resolved"

\* this step is a run of the handler
HandlerRuns == Len(calls') = Len(calls) + 1

LastCall == calls'[Len(calls')]

\* decimal digits back to a number; -1 when the text is no decimal numeral
DigitValue(c) ==
    CASE c = "0" -> 0 [] c = "1" -> 1 [] c = "2" -> 2 [] c = "3" -> 3
      [] c = "4" -> 4 [] c = "5" -> 5 [] c = "6" -> 6 [] c = "7" -> 7
      [] c = "8" -> 8 [] c = "9" -> 9 [] OTHER -> -1

RECURSIVE ParseDecimal(_)
ParseDecimal(s) ==
    IF s = <<>> THEN -1
    ELSE IF Len(s) = 1 THEN DigitValue(s[1])
    ELSE LET hi == ParseDecimal(SubSeq(s, 1, Len(s) - 1))
             lo == DigitValue(s[Len(s)])
         IN  IF hi < 0 \/ lo < 0 THEN -1 ELSE 10 * hi + lo

----------------------------------------------------------------------------
(* C1: when the load of the requested URL fails, the handler runs exactly  *)
(* once for it, with an absent object, and main() returns -1.              *)

C1_Safety ==
    LoadFailed =>
       /\ Len(MatchingCalls) <= 1
       /\ \A i \in 1..Len(MatchingCalls) :
             /\ MatchingCalls[i].obj = NULL
             /\ MatchingCalls[i].exits = <<ExitFailure>>
       /\ (MatchingCalls # <<>> => SentinelTaken)
       /\ (result # NoResult => result = <<ExitFailure>> /\ Len(MatchingCalls) = 1)

\* C1: a failed load of the requested URL runs the handler once with an
\* absent object and always leads to main() returning -1.
C1_FailedLoadExitsMinusOne ==
    /\ []C1_Safety
    /\ (LoadFailed ~> (result = <<ExitFailure>> /\ Len(MatchingCalls) = 1))

C1_Witness ==
    /\ LoadFailed
    /\ pc = Done
    /\ result = <<ExitFailure>>
    /\ Len(MatchingCalls) = 1

(* C2: when the load of the requested URL succeeds, the handler runs       *)
(* exactly once for it, with a present object and the requested URL, does  *)
(* nothing, and exit(-1) is never taken.                                   *)

C2_Safety ==
    LoadResolved =>
       /\ Len(MatchingCalls) <= 1
       /\ \A i \in 1..Len(MatchingCalls) :
             /\ MatchingCalls[i].obj # NULL
             /\ MatchingCalls[i].exits = <<>>
       /\ ~SentinelTaken
       /\ (result # NoResult => result = <<ExitSuccess>> /\ Len(MatchingCalls) = 1)

\* C2: a successful load of the requested URL runs the handler once with a
\* present object; that run changes nothing and exit(-1) is never taken.
C2_ResolvedLoadStaysInLoop ==
    /\ []C2_Safety
    /\ [][(LoadResolved /\ HandlerRuns /\ LastCall.url = url)
             => (loop' = loop /\ result' = result /\ pc' = pc)]_vars
    /\ (LoadResolved ~> (Len(MatchingCalls) = 1))

C2_Witness ==
    /\ LoadResolved
    /\ Len(MatchingCalls) = 1
    /\ loop.running
    /\ ~loop.exit
    /\ batch = 0
    /\ queue = <<>>

(* C3: a handler run for a URL other than the requested one changes        *)
(* nothing: the loader state, the exit request of the loop, the result and *)
(* the context stay as they were, whether the object is present or absent. *)

C3_MismatchIgnored ==
    /\ [](\A i \in 1..Len(OtherCalls) : OtherCalls[i].exits = <<>>)
    /\ [][(HandlerRuns /\ LastCall.url # url)
             => /\ LoaderState' = LoaderState
                /\ loop' = loop
                /\ result' = result
                /\ context' = context]_vars

C3_Witness ==
    /\ \E i \in 1..Len(OtherCalls) : OtherCalls[i].obj = NULL
    /\ \E i \in 1..Len(OtherCalls) : OtherCalls[i].obj # NULL
    /\ LoaderState = "Requested"
    /\ loop.running
    /\ ~loop.exit

(* C4: whenever engine.load is about to be called or has been called, the  *)
(* context holds under "usdVersion" the decimal text of the version.       *)

C4_LoadAfterPublish ==
    (At("load") \/ LoaderState # "Idle") =>
       /\ usdVersionKey \in DOMAIN context
       /\ context[usdVersionKey] # <<>>
       /\ ParseDecimal(context[usdVersionKey]) = version

C4_Witness ==
    /\ LoaderState = "Failed"
    /\ version = 2311
    /\ context[usdVersionKey] = <<"2", "3", "1", "1">>

(* C5: main() returns -1 only if the handler ran with an absent object and *)
(* the requested URL; when it returns without such a run, it returns 0.    *)

C5_SentinelExclusive ==
    /\ (SentinelTaken => FailureDelivered)
    /\ ((result # NoResult /\ ~FailureDelivered) => result = <<ExitSuccess>>)

C5_Witness ==
    /\ result = <<ExitSuccess>>
    /\ \E i \in 1..Len(OtherCalls) : OtherCalls[i].obj = NULL

(* C6: the loader moves only Idle -> Requested -> Resolved or Failed;      *)
(* Resolved and Failed are never left; in Resolved exit(-1) is never       *)
(* taken; in Failed exit(-1) has been taken and main() can only return -1. *)

LoaderTransitions ==
    { <<"Idle", "Requested">>,
      <<"Requested", "Resolved">>,
      <<"Requested", "Failed">> }

C6_LoaderStateMachine ==
    /\ [][LoaderState' # LoaderState
             => <<LoaderState, LoaderState'>> \in LoaderTransitions]_vars
    /\ [](LoaderState = "Resolved" => ~SentinelTaken)
    /\ [](LoaderState = "Failed"
             => SentinelTaken /\ result \in {NoResult, <<ExitFailure>>})

C6_Witness ==
    /\ LoaderState = "Resolved"
    /\ \E i \in 1..Len(calls) :
          /\ calls[i].url # url
          /\ calls[i].obj = NULL
          /\ \E j \in 1..(i - 1) : calls[j].url = url
    /\ result = <<ExitSuccess>>

(* C7: the handler never runs inside engine.load; every run happens while  *)
(* app.exec() is running, as a posted event of a turn of the event loop.   *)

C7_QueuedDelivery ==
    /\ [](\A i \in 1..Len(calls) : calls[i].inExec)
    /\ [][loads' # loads => calls' = calls]_vars
    /\ [][calls' # calls
             => At("exec") /\ loop.running /\ batch > 0 /\ loads' = loads]_vars

C7_Witness ==
    /\ \E i \in 1..Len(emitted) : emitted[i].url = url /\ emitted[i].at = "load"
    /\ FailureDelivered
    /\ result = <<ExitFailure>>

(* C8: the context is written once, by the publish statement, before the   *)
(* load is requested; it then has the single entry "usdVersion" and no     *)
(* later step changes it.                                                  *)

C8_ContextWrittenOnce ==
    /\ [](Len(ctxWrites) <= 1)
    /\ [](\A i \in 1..Len(ctxWrites) : ctxWrites[i].loads = 0)
    /\ []((At("load") \/ LoaderState # "Idle")
             => Len(ctxWrites) = 1 /\ DOMAIN context = {usdVersionKey})
    /\ [][ctxWrites # <<>> => context' = context]_vars

C8_Witness ==
    /\ pc = Done
    /\ Len(ctxWrites) = 1
    /\ DOMAIN context = {usdVersionKey}
    /\ MatchingCalls # <<>>
    /\ OtherCalls # <<>>

(* C9: engine.load is called at most once and never again after a failure; *)
(* while the loader is Requested exit(-1) is not taken, and only a handler *)
(* run for the requested URL takes the loader out of Requested.            *)

C9_NoTimeoutNoRetry ==
    /\ [](loads <= 1)
    /\ [](LoaderState = "Requested" => ~SentinelTaken)
    /\ [][(LoaderState = "Requested" /\ LoaderState' # "Requested")
             => HandlerRuns /\ LastCall.url = url]_vars
    /\ [][LoaderState = "Failed" => loads' = loads]_vars

C9_Witness ==
    /\ LoaderState = "Requested"
    /\ pending
    /\ loop.running
    /\ queue = <<>>
    /\ \E i \in 1..Len(OtherCalls) : OtherCalls[i].obj = NULL

(* C10: the handler is connected when engine.load is called, so every      *)
(* objectCreated notification for the requested URL is posted to it: each  *)
(* one is either still queued or has been run.                             *)

C10_ConnectedBeforeLoad ==
    /\ [][loads' # loads => connected]_vars
    /\ [](\A i \in 1..Len(MatchingEmitted) : MatchingEmitted[i].connected)
    /\ [](Len(MatchingEmitted) = Len(MatchingQueued) + Len(MatchingCalls))

C10_Witness ==
    /\ \E i \in 1..Len(emitted) : emitted[i].url = url /\ emitted[i].at = "load"
    /\ Len(MatchingQueued) = 1
    /\ ~loop.running
    /\ At("exec")

====
